---------------------------- MODULE Spec2Model ----------------------------
(***************************************************************************)
(* Model of the vegacom/go toolbox: dufmt (disk usage formatter) and the   *)
(* dircolors package it colours names with.                                *)
(*                                                                         *)
(* Go strings are sequences of one-character strings.  A Go int is 64 bits *)
(* wide; it is kept as three limbs <<h, m, l>> standing for                *)
(* h * 2^48 + m * 2^24 + l with m, l in 0 .. 2^24 - 1, and h in            *)
(* -2^15 .. 2^15 - 1 once wrapped to 64 bits.                              *)
(***************************************************************************)
EXTENDS Integers, Sequences, FiniteSets, TLC

VARIABLES
    pc,          \* position of the running program
    fs,          \* the file system: path -> node
    args,        \* flag.Args()
    color,       \* the -color flag
    duPaths,     \* what paths() returned
    data,        \* what du printed
    s,           \* the duSlice of main
    duErr,       \* the error (or panic) that ended main, "" if none
    out,         \* the rows WriteAll wrote
    LS_COLORS,   \* the LS_COLORS environment variable
    dircolorsCmd,\* what `dircolors -b` does when run
    tty,         \* dircolors.tty
    builds,      \* how many times parseDircolors has run
    calls,       \* how many ForTTY calls have been made
    ret,         \* the last ForTTY call: its path, its Key result, its return value
    walkReadsFirst, \* whether the Go release's filepath.Walk reads a directory
                 \* before reporting it to the callback (older ones report first)
    keyArg,      \* the argument and the result of a call of Key
    cnt          \* the argument and the result of a call of count

vars == <<pc, fs, args, color, duPaths, data, s, duErr, out, LS_COLORS,
          dircolorsCmd, tty, builds, calls, ret, walkReadsFirst, keyArg, cnt>>

-----------------------------------------------------------------------------
(* Strings *)

Nil == "nil"

SeqsUpTo(S, n) == UNION {[1..k -> S] : k \in 0..n}

RECURSIVE Concat(_)
Concat(ss) == IF ss = <<>> THEN <<>> ELSE Head(ss) \o Concat(Tail(ss))

\* strings.Index(str, c) for a one-character c, 1-based; 0 when absent.
IndexOf(str, c) ==
    IF \E i \in 1..Len(str) : str[i] = c
    THEN CHOOSE i \in 1..Len(str) : str[i] = c /\ \A j \in 1..(i-1) : str[j] # c
    ELSE 0

\* strings.LastIndex(str, c), 1-based; 0 when absent.
LastIndexOf(str, c) ==
    IF \E i \in 1..Len(str) : str[i] = c
    THEN CHOOSE i \in 1..Len(str) : str[i] = c /\ \A j \in (i+1)..Len(str) : str[j] # c
    ELSE 0

\* strings.Split(str, sep) / bytes.Split for a one-character sep: always at
\* least one field, empty fields kept.
RECURSIVE Split(_, _)
Split(str, sep) ==
    LET i == IndexOf(str, sep)
    IN  IF i = 0 THEN <<str>>
        ELSE <<SubSeq(str, 1, i-1)>> \o Split(SubSeq(str, i+1, Len(str)), sep)

\* strings.SplitN(str, sep, 2): cut at the first sep only.
SplitN2(str, sep) ==
    LET i == IndexOf(str, sep)
    IN  IF i = 0 THEN <<str>>
        ELSE <<SubSeq(str, 1, i-1), SubSeq(str, i+1, Len(str))>>

\* filepath.Join(dir, name) for clean operands.
Join(dir, name) == dir \o <<"/">> \o name

\* filepath.Ext: the suffix from the last dot of the last path element.
Ext(path) ==
    LET slash == LastIndexOf(path, "/")
        dot == LastIndexOf(path, ".")
    IN  IF dot > slash THEN SubSeq(path, dot, Len(path)) ELSE <<>>

-----------------------------------------------------------------------------
(* 64-bit integers *)

Limb == 2^24
HalfTop == 2^15

Norm(h, m, l) ==
    LET m1 == m + (l \div Limb)
    IN  <<h + (m1 \div Limb), m1 % Limb, l % Limb>>

Zero64 == <<0, 0, 0>>
AddExact(a, b) == Norm(a[1] + b[1], a[2] + b[2], a[3] + b[3])
NegExact(a) == Norm(-a[1], -a[2], -a[3])
Wrap64(a) == <<((a[1] + HalfTop) % (2 * HalfTop)) - HalfTop, a[2], a[3]>>
InInt64(a) == a[1] >= -HalfTop /\ a[1] < HalfTop
\* Go's int addition: two's complement, silently wrapping.
Add64(a, b) == Wrap64(AddExact(a, b))
Less64(a, b) ==
    \/ a[1] < b[1]
    \/ a[1] = b[1] /\ a[2] < b[2]
    \/ a[1] = b[1] /\ a[2] = b[2] /\ a[3] < b[3]

Digits == {"0", "1", "2", "3", "4", "5", "6", "7", "8", "9"}
DigitVal(c) == CASE c = "0" -> 0 [] c = "1" -> 1 [] c = "2" -> 2 [] c = "3" -> 3
                 [] c = "4" -> 4 [] c = "5" -> 5 [] c = "6" -> 6 [] c = "7" -> 7
                 [] c = "8" -> 8 [] c = "9" -> 9

\* strconv.ParseUint(str, 10, 64) on a digit string: the magnitude, and
\* whether it left the range of 64 bits on the way.
RECURSIVE ParseUint(_, _)
ParseUint(str, acc) ==
    IF str = <<>> THEN [range |-> FALSE, v |-> acc]
    ELSE LET n == Norm(acc[1] * 10, acc[2] * 10, acc[3] * 10 + DigitVal(Head(str)))
         IN  IF n[1] >= 2 * HalfTop THEN [range |-> TRUE, v |-> Zero64]
             ELSE ParseUint(Tail(str), n)

\* strconv.Atoi: an optional sign, then one or more decimal digits, within
\* the range of int.
Atoi(str) ==
    LET signed == str # <<>> /\ Head(str) \in {"+", "-"}
        neg == str # <<>> /\ Head(str) = "-"
        body == IF signed THEN Tail(str) ELSE str
    IN  IF body = <<>> \/ \E i \in 1..Len(body) : body[i] \notin Digits
        THEN [err |-> "syntax", v |-> Zero64]
        ELSE LET un == ParseUint(body, Zero64)
             IN  IF un.range THEN [err |-> "range", v |-> Zero64]
                 ELSE IF ~neg /\ un.v[1] >= HalfTop THEN [err |-> "range", v |-> Zero64]
                 ELSE IF neg /\ Less64(<<HalfTop, 0, 0>>, un.v)
                      THEN [err |-> "range", v |-> Zero64]
                 ELSE [err |-> Nil, v |-> IF neg THEN NegExact(un.v) ELSE un.v]

-----------------------------------------------------------------------------
(* The file system *)

\* What lstat, readlink, stat and readdir answer for one path.
RegularFile ==
    [lstat |-> "ok",        \* "ok", "notexist" (ENOENT) or "error" (e.g. EACCES)
     ftype |-> "reg",       \* reg, dir, symlink, pipe, socket, chardev, blockdev
     setuid |-> FALSE, setgid |-> FALSE,
     perm |-> {},           \* the execute bits set, among u+x, g+x, o+x
     nlink |-> 1,
     readlink |-> "ok",     \* whether readlink(2) succeeds on a symlink
     target |-> "missing",  \* what a symlink points to: missing, file or dir
     names |-> <<>>,        \* a directory's entries, in lexical order
     readdir |-> "ok"]      \* whether the directory can be read

Missing == [RegularFile EXCEPT !.lstat = "notexist"]
Directory(names) == [RegularFile EXCEPT !.ftype = "dir", !.names = names, !.nlink = 2]

Lstat(path) == IF path \in DOMAIN fs THEN fs[path] ELSE Missing

\* os.FileInfo.Mode() as the os package fills it from st_mode.
FileMode(node) ==
    (CASE node.ftype = "dir" -> {"ModeDir"}
       [] node.ftype = "symlink" -> {"ModeSymlink"}
       [] node.ftype = "pipe" -> {"ModeNamedPipe"}
       [] node.ftype = "socket" -> {"ModeSocket"}
       [] node.ftype = "chardev" -> {"ModeDevice", "ModeCharDevice"}
       [] node.ftype = "blockdev" -> {"ModeDevice"}
       [] OTHER -> {})
    \cup (IF node.setuid THEN {"ModeSetuid"} ELSE {})
    \cup (IF node.setgid THEN {"ModeSetgid"} ELSE {})
    \cup node.perm

\* os.Stat: like lstat but through a symlink.
Stat(path) ==
    LET node == Lstat(path)
    IN  IF node.lstat # "ok" THEN [err |-> TRUE, isDir |-> FALSE]
        ELSE IF node.ftype = "symlink"
             THEN [err |-> node.target = "missing", isDir |-> node.target = "dir"]
        ELSE [err |-> FALSE, isDir |-> node.ftype = "dir"]

\* filepath.Glob of every entry of dir: the entries, sorted; never an error
\* for such a pattern, and nothing when the directory cannot be read.  A
\* symlink to a directory lists the directory (names holds its entries).
GlobIn(dir) ==
    LET node == Lstat(dir)
    IN  IF ~Stat(dir).err /\ Stat(dir).isDir /\ node.readdir = "ok"
        THEN [i \in 1..Len(node.names) |-> Join(dir, node.names[i])]
        ELSE <<>>

\* filepath.Glob("*"): the entries of the working directory, as bare names.
GlobStar ==
    LET node == Lstat(<<".">>)
    IN  IF node.lstat = "ok" /\ node.ftype = "dir" /\ node.readdir = "ok"
        THEN node.names ELSE <<>>

-----------------------------------------------------------------------------
(* Package dircolors *)

Reset == <<"r", "s">>
Dir == <<"d", "i">>
Link == <<"l", "n">>
MultiHardlink == <<"m", "h">>
NamedPipe == <<"p", "i">>
Socket == <<"s", "o">>
BlockDevice == <<"b", "d">>
CharDevice == <<"c", "d">>
Orphan == <<"o", "r">>
Setuid == <<"s", "u">>
Setgid == <<"s", "g">>
Executable == <<"e", "x">>

ExecBits == {"u+x", "g+x", "o+x"}

\* The assertion of info.Sys() to a syscall.Stat_t pointer succeeds
\* wherever the package compiles.
StatTOk == TRUE

\* Key with the executable test moved before the setuid and setgid tests.
KeyExecutableFirst(fpath) ==
    LET info == Lstat(fpath)
        mode == FileMode(info)
        ext == Ext(fpath)
    IN  IF info.lstat = "notexist" THEN [key |-> Orphan, err |-> Nil]
        ELSE IF info.lstat # "ok" THEN [key |-> <<>>, err |-> "lstat"]
        ELSE IF "ModeDir" \in mode THEN [key |-> Dir, err |-> Nil]
        ELSE IF "ModeSymlink" \in mode
             THEN IF info.readlink # "ok" THEN [key |-> Orphan, err |-> Nil]
                  ELSE [key |-> Link, err |-> Nil]
        ELSE IF "ModeNamedPipe" \in mode THEN [key |-> NamedPipe, err |-> Nil]
        ELSE IF "ModeSocket" \in mode THEN [key |-> Socket, err |-> Nil]
        ELSE IF "ModeDevice" \in mode
             THEN IF "ModeCharDevice" \in mode THEN [key |-> CharDevice, err |-> Nil]
                  ELSE [key |-> BlockDevice, err |-> Nil]
        ELSE IF mode \cap ExecBits # {} THEN [key |-> Executable, err |-> Nil]
        ELSE IF "ModeSetuid" \in mode THEN [key |-> Setuid, err |-> Nil]
        ELSE IF "ModeSetgid" \in mode THEN [key |-> Setgid, err |-> Nil]
        ELSE IF info.nlink > 1 THEN [key |-> MultiHardlink, err |-> Nil]
        ELSE IF ext # <<>> THEN [key |-> <<"*">> \o ext, err |-> Nil]
        ELSE [key |-> Reset, err |-> Nil]

\* Key returns the dircolor code for fpath based on its type.
Key(fpath) ==
    LET info == Lstat(fpath)
        mode == FileMode(info)
        ext == Ext(fpath)
    IN  IF info.lstat = "notexist" THEN [key |-> Orphan, err |-> Nil]
        ELSE IF info.lstat # "ok" THEN [key |-> <<>>, err |-> "lstat"]
        ELSE IF "ModeDir" \in mode THEN [key |-> Dir, err |-> Nil]
        ELSE IF "ModeSymlink" \in mode
             THEN IF info.readlink # "ok" THEN [key |-> Orphan, err |-> Nil]
                  ELSE [key |-> Link, err |-> Nil]
        ELSE IF "ModeNamedPipe" \in mode THEN [key |-> NamedPipe, err |-> Nil]
        ELSE IF "ModeSocket" \in mode THEN [key |-> Socket, err |-> Nil]
        ELSE IF "ModeDevice" \in mode
             THEN IF "ModeCharDevice" \in mode THEN [key |-> CharDevice, err |-> Nil]
                  ELSE [key |-> BlockDevice, err |-> Nil]
        ELSE IF "ModeSetuid" \in mode THEN [key |-> Setuid, err |-> Nil]
        ELSE IF "ModeSetgid" \in mode THEN [key |-> Setgid, err |-> Nil]
        ELSE IF mode \cap ExecBits # {} THEN [key |-> Executable, err |-> Nil]
        ELSE IF ~StatTOk THEN [key |-> <<>>, err |-> "unsupported system"]
        ELSE IF info.nlink > 1 THEN [key |-> MultiHardlink, err |-> Nil]
        ELSE IF ext # <<>> THEN [key |-> <<"*">> \o ext, err |-> Nil]
        ELSE [key |-> Reset, err |-> Nil]

\* A Go map[string]string: a function on its keys; a missing key reads "".
EmptyMap == [k \in {} |-> <<>>]
MapPut(m, k, v) == [x \in (DOMAIN m) \cup {k} |-> IF x = k THEN v ELSE m[x]]
MapGet(m, k) == IF k \in DOMAIN m THEN m[k] ELSE <<>>

\* execDircolors: the text between the first and the last quote of what
\* `dircolors -b` prints.  data[start+1 : end] panics when there is one quote.
execDircolors ==
    LET d == dircolorsCmd.output
        start == IndexOf(d, "'")
        end == LastIndexOf(d, "'")
    IN  IF dircolorsCmd.err THEN [str |-> <<>>, err |-> TRUE, panic |-> FALSE]
        ELSE IF start = 0 \/ end = 0 THEN [str |-> <<>>, err |-> TRUE, panic |-> FALSE]
        ELSE IF start + 1 > end THEN [str |-> <<>>, err |-> FALSE, panic |-> TRUE]
        ELSE [str |-> SubSeq(d, start + 1, end - 1), err |-> FALSE, panic |-> FALSE]

\* The pair loop splitting a pair at every "=": a pair with two is dropped.
RECURSIVE AddPairsSplitAll(_, _)
AddPairsSplitAll(m, pairs) ==
    IF pairs = <<>> THEN m
    ELSE LET items == Split(Head(pairs), "=")
         IN  AddPairsSplitAll(IF Len(items) = 2 THEN MapPut(m, items[1], items[2]) ELSE m,
                              Tail(pairs))

\* The pair loop of parseDircolors.
RECURSIVE AddPairs(_, _)
AddPairs(m, pairs) ==
    IF pairs = <<>> THEN m
    ELSE LET items == SplitN2(Head(pairs), "=")
         IN  AddPairs(IF Len(items) = 2 THEN MapPut(m, items[1], items[2]) ELSE m,
                      Tail(pairs))

\* The colour specification parseDircolors reads: LS_COLORS, else dircolors.
ColorSpec ==
    IF LS_COLORS # <<>> THEN [str |-> LS_COLORS, err |-> FALSE, panic |-> FALSE]
    ELSE execDircolors

\* parseDircolors with a map allocated at the first entry only: nil when
\* no pair was entered.
parseDircolorsLazyMap ==
    [nil |-> AddPairs(EmptyMap, Split(ColorSpec.str, ":")) = EmptyMap,
     m |-> AddPairs(EmptyMap, Split(ColorSpec.str, ":")),
     panic |-> ColorSpec.panic]

\* parseDircolors returns a map of dircolor code to color (never a nil map).
parseDircolors ==
    [nil |-> FALSE, m |-> AddPairs(EmptyMap, Split(ColorSpec.str, ":")),
     panic |-> ColorSpec.panic]

Esc == "ESC"

\* ForTTY without the test for an empty attribute.
ForTTYFromAlwaysWraps(t, fpath) ==
    LET built == t.nil
        t1 == IF t.nil THEN [nil |-> parseDircolors.nil, m |-> parseDircolors.m] ELSE t
        k == Key(fpath)
        attr == MapGet(t1.m, k.key)
    IN  IF built /\ parseDircolors.panic
        THEN [tty |-> t, built |-> TRUE, panic |-> TRUE, key |-> k, str |-> <<>>]
        ELSE [tty |-> t1, built |-> built, panic |-> FALSE, key |-> k,
              str |-> IF k.err # Nil THEN fpath
                      ELSE <<Esc, "[">> \o attr \o <<"m">> \o fpath \o <<Esc, "[", "0", "m">>]

\* ForTTY(fpath) run with tty = t: the map it leaves in tty, the string it
\* returns, whether it built the map, whether it panicked on the way.
ForTTYFrom(t, fpath) ==
    LET built == t.nil
        t1 == IF t.nil THEN [nil |-> parseDircolors.nil, m |-> parseDircolors.m] ELSE t
        k == Key(fpath)
        attr == MapGet(t1.m, k.key)
    IN  IF built /\ parseDircolors.panic
        THEN [tty |-> t, built |-> TRUE, panic |-> TRUE, key |-> k, str |-> <<>>]
        ELSE [tty |-> t1, built |-> built, panic |-> FALSE, key |-> k,
              str |-> IF k.err # Nil \/ attr = <<>> THEN fpath
                      ELSE <<Esc, "[">> \o attr \o <<"m">> \o fpath \o <<Esc, "[", "0", "m">>]

-----------------------------------------------------------------------------
(* Command dufmt *)

\* filepath.Walk(fpath, walk) with count's callback: the callback adds one
\* for an entry reported without an error and returns the error of an entry
\* reported with one, which ends the walk.  n is the count so far; stop
\* tells that the walk has ended.
RECURSIVE WalkTree(_, _), WalkNames(_, _, _)
WalkTree(path, n) ==
    LET info == Lstat(path)
    IN  IF info.ftype # "dir" THEN [n |-> n + 1, stop |-> FALSE]
        ELSE IF walkReadsFirst
             THEN \* readDirNames, then walkFn(path, info, err)
                  IF info.readdir # "ok" THEN [n |-> n, stop |-> TRUE]
                  ELSE WalkNames(path, info.names, n + 1)
             ELSE \* walkFn(path, info, nil), then readDirNames
                  IF info.readdir # "ok" THEN [n |-> n + 1, stop |-> TRUE]
                  ELSE WalkNames(path, info.names, n + 1)

\* The loop over a directory's entries with a callback that returns nil for
\* an entry reported with an error: the walk goes on.
RECURSIVE WalkNamesGoesOn(_, _, _)
WalkNamesGoesOn(path, names, n) ==
    IF names = <<>> THEN [n |-> n, stop |-> FALSE]
    ELSE LET filename == Join(path, Head(names))
         IN  IF Lstat(filename).lstat # "ok" THEN WalkNamesGoesOn(path, Tail(names), n)
             ELSE LET r == WalkTree(filename, n)
                  IN  WalkNamesGoesOn(path, Tail(names), r.n)

WalkNames(path, names, n) ==
    IF names = <<>> THEN [n |-> n, stop |-> FALSE]
    ELSE LET filename == Join(path, Head(names))
         IN  IF Lstat(filename).lstat # "ok" THEN [n |-> n, stop |-> TRUE]
             ELSE LET r == WalkTree(filename, n)
                  IN  IF r.stop THEN r ELSE WalkNames(path, Tail(names), r.n)

\* count(fpath): the n the walk leaves.
count(fpath) ==
    IF Lstat(fpath).lstat # "ok" THEN 0 ELSE WalkTree(fpath, 0).n

\* The line loop of newDuSlice.  kind is "ok", "err" (the error return, with
\* the line it quotes) or "panic" (items[1] read from a one-field split).
RECURSIVE ParseLines(_, _)
ParseLines(lines, acc) ==
    IF lines = <<>> THEN [kind |-> "ok", s |-> acc, line |-> <<>>]
    ELSE LET line == Head(lines)
             items == SplitN2(line, "\t")
             size == Atoi(items[1])
         IN  IF line = <<>> THEN ParseLines(Tail(lines), acc)
             ELSE IF size.err # Nil THEN [kind |-> "err", s |-> <<>>, line |-> line]
             ELSE IF Len(items) < 2 THEN [kind |-> "panic", s |-> <<>>, line |-> line]
             ELSE ParseLines(Tail(lines),
                             Append(acc, [name |-> items[2], size |-> size.v,
                                          childrenCount |-> count(items[2])]))

\* newDuSlice parses data from du output.
newDuSlice(d) == ParseLines(Split(d, "\n"), <<>>)

\* Less with the comparison turned round.
LessDescending(x, y) == Less64(y.size, x.size)

\* duSlice.Less on two elements.
Less(x, y) == Less64(x.size, y.size)

Perms(n) == {p \in [1..n -> 1..n] : \A i, j \in 1..n : i # j => p[i] # p[j]}

\* sort.Sort(s): some reordering of s that Less finds no inversion in;
\* sort.Sort does not promise to keep equal elements in order.
SortResults(sl) ==
    {[i \in 1..Len(sl) |-> sl[p[i]]] : p \in
        {q \in Perms(Len(sl)) : \A i, j \in 1..Len(sl) : i < j => ~Less(sl[q[j]], sl[q[i]])}}

\* total with "=" for "+=": the size of the last record.
totalAssigns(sl) == IF sl = <<>> THEN Zero64 ELSE sl[Len(sl)].size

\* total(s): the sizes added up in int arithmetic.
RECURSIVE total(_)
total(sl) == IF sl = <<>> THEN Zero64 ELSE Add64(total(SubSeq(sl, 1, Len(sl) - 1)), sl[Len(sl)].size)

Total == <<"t", "o", "t", "a", "l">>

\* paths looking at the first argument whatever their number.
pathsFirstArgOnly(a) ==
    IF Len(a) = 0 THEN [paths |-> GlobStar, err |-> FALSE]
    ELSE IF Stat(a[1]).err THEN [paths |-> <<>>, err |-> TRUE]
    ELSE IF Stat(a[1]).isDir THEN [paths |-> GlobIn(a[1]), err |-> FALSE]
    ELSE [paths |-> a, err |-> FALSE]

\* paths(args): the paths to hand to du, or an error.
paths(a) ==
    IF Len(a) = 0 THEN [paths |-> GlobStar, err |-> FALSE]
    ELSE IF Len(a) = 1 /\ Stat(a[1]).err THEN [paths |-> <<>>, err |-> TRUE]
    ELSE IF Len(a) = 1 /\ Stat(a[1]).isDir THEN [paths |-> GlobIn(a[1]), err |-> FALSE]
    ELSE [paths |-> a, err |-> FALSE]

\* uint64(n) of an int n.
Uint64(a) == <<a[1] % (2 * HalfTop), a[2], a[3]>>

formatCount(n) == IF n <= 1 THEN [blank |-> TRUE, n |-> 0] ELSE [blank |-> FALSE, n |-> n]

\* The loop of WriteAll from record i on, with tty = t and acc written.
RECURSIVE WriteRows(_, _, _, _, _)
WriteRows(sl, i, colorize, t, acc) ==
    IF i > Len(sl) THEN [rows |-> acc, tty |-> t, built |-> 0, panic |-> FALSE]
    ELSE LET info == sl[i]
             f == ForTTYFrom(t, info.name)
             row == [bytes |-> Uint64(info.size),
                     count |-> formatCount(info.childrenCount),
                     name |-> IF colorize THEN f.str ELSE info.name]
         IN  IF colorize /\ f.panic
             THEN [rows |-> acc, tty |-> t, built |-> 1, panic |-> TRUE]
             ELSE LET r == WriteRows(sl, i + 1, colorize,
                                     IF colorize THEN f.tty ELSE t, Append(acc, row))
                  IN  [r EXCEPT !.built = @ + (IF colorize /\ f.built THEN 1 ELSE 0)]

-----------------------------------------------------------------------------
(* Inputs *)

MaxLines == 2
MaxPairs == 2
MaxCalls == 2
MaxArgs == 2

NoErr == [kind |-> Nil, line |-> <<>>]
NilMap == [nil |-> TRUE, m |-> EmptyMap]
NoRet == [path |-> <<>>, key |-> [key |-> <<>>, err |-> Nil], str |-> <<>>]
CmdFails == [err |-> TRUE, output |-> <<>>]

MaxIntText == <<"9","2","2","3","3","7","2","0","3","6","8","5","4","7","7","5","8","0","7">>
MaxIntTextPlus1 == <<"9","2","2","3","3","7","2","0","3","6","8","5","4","7","7","5","8","0","8">>

\* The size fields and the rests of the lines du may be made to print.
SizeTexts == {<<>>, <<"1">>, <<"2">>, <<"-", "1">>, <<"+", "2">>, <<"x">>, MaxIntText, MaxIntTextPlus1}
Rests == {<<>>, <<"\t", "a">>, <<"\t", "b">>, <<"\t">> \o Total}
Lines == {st \o r : st \in SizeTexts, r \in Rests}
Reports == {Concat([i \in 1..Len(ls) |-> ls[i] \o <<"\n">>]) : ls \in SeqsUpTo(Lines, MaxLines)}

Colors == {"never", "always", "auto"}

\* A working directory with one entry of several kinds; "total" is absent.
SampleFS ==
    (<<".">> :> Directory(<< <<"a">>, <<"b">>, <<"e">>, <<"f", ".", "g", "o">>, <<"l">>, <<"u">> >>))
    @@ (<<"a">> :> Directory(<< <<"x">> >>))
    @@ (<<"a", "/", "x">> :> RegularFile)
    @@ (<<"b">> :> RegularFile)
    @@ (<<"e">> :> [RegularFile EXCEPT !.perm = {"u+x"}])
    @@ (<<"f", ".", "g", "o">> :> RegularFile)
    @@ (<<"l">> :> [RegularFile EXCEPT !.ftype = "symlink"])
    @@ (<<"u">> :> [RegularFile EXCEPT !.lstat = "error"])

TTYPaths == (DOMAIN SampleFS) \cup {Total}

\* Pairs of a colour specification, well formed and not.
Pairs == {<<>>, <<"d","i","=","1">>, <<"d","i">>, <<"d","i","=","1","=","2">>,
          <<"r","s","=","0">>, <<"=","5">>, <<"e","x","=">>}
RECURSIVE JoinColon(_)
JoinColon(ps) ==
    IF ps = <<>> THEN <<>>
    ELSE IF Len(ps) = 1 THEN ps[1]
    ELSE ps[1] \o <<":">> \o JoinColon(Tail(ps))
ColorSpecs == {JoinColon(ps) : ps \in SeqsUpTo(Pairs, MaxPairs)}

\* What `dircolors -b` may do: fail, or print one of these.
DircolorsRuns ==
    {CmdFails,
     [err |-> FALSE, output |-> <<"L","S","=","'","d","i","=","3",":","l","n","=","4","'",";">>],
     [err |-> FALSE, output |-> <<"x">>],
     [err |-> FALSE, output |-> <<"'">>]}

DuIdle ==
    /\ args = <<>> /\ color = "never" /\ duPaths = <<>> /\ data = <<>>
    /\ s = <<>> /\ duErr = NoErr /\ out = <<>>
TTYIdle ==
    /\ LS_COLORS = <<>> /\ dircolorsCmd = CmdFails /\ tty = NilMap
    /\ builds = 0 /\ calls = 0 /\ ret = NoRet
HarnessIdle ==
    /\ walkReadsFirst = TRUE
    /\ keyArg = [path |-> <<>>, res |-> [key |-> <<>>, err |-> Nil]]
    /\ cnt = [path |-> <<>>, n |-> 0]

duVars == <<args, color, duPaths, data, s, duErr, out>>
ttyVars == <<LS_COLORS, dircolorsCmd, tty, builds, calls, ret>>
harnessVars == <<walkReadsFirst, keyArg, cnt>>

-----------------------------------------------------------------------------
(* dufmt's main, statement by statement *)

\* paths, err := paths(flag.Args()); glog.Exitf on an error.
MainPaths ==
    /\ pc = "main"
    /\ LET r == paths(args)
       IN  IF r.err
           THEN /\ pc' = "exit"
                /\ duErr' = [kind |-> "bad args", line |-> <<>>]
                /\ UNCHANGED duPaths
           ELSE /\ pc' = "du"
                /\ duPaths' = r.paths
                /\ UNCHANGED duErr
    /\ UNCHANGED <<fs, args, color, data, s, out, ttyVars, harnessVars>>

\* data, err := execDu(paths): du prints a report.
ExecDu ==
    /\ pc = "du"
    /\ \E d \in Reports : data' = d
    /\ pc' = "parse"
    /\ UNCHANGED <<fs, args, color, duPaths, s, duErr, out, ttyVars, harnessVars>>

\* data, err := execDu(paths): du cannot be run; glog.Exitf.
ExecDuFails ==
    /\ pc = "du"
    /\ pc' = "exit"
    /\ duErr' = [kind |-> "cannot execute du", line |-> <<>>]
    /\ UNCHANGED <<fs, args, color, duPaths, data, s, out, ttyVars, harnessVars>>

\* s, err := newDuSlice(data); glog.Exit on an error.
MainNewDuSlice ==
    /\ pc = "parse"
    /\ LET r == newDuSlice(data)
       IN  /\ s' = r.s
           /\ pc' = (CASE r.kind = "ok" -> "sort" [] r.kind = "err" -> "exit"
                       [] OTHER -> "panic")
           /\ duErr' = IF r.kind = "ok" THEN NoErr
                       ELSE [kind |-> r.kind, line |-> r.line]
    /\ UNCHANGED <<fs, args, color, duPaths, data, out, ttyVars, harnessVars>>

\* sort.Sort(s)
MainSort ==
    /\ pc = "sort"
    /\ s' \in SortResults(s)
    /\ pc' = "total"
    /\ UNCHANGED <<fs, args, color, duPaths, data, duErr, out, ttyVars, harnessVars>>

\* s = append(s, &duInfo{name: "total", size: total(s)})
MainAppendTotal ==
    /\ pc = "total"
    /\ s' = Append(s, [name |-> Total, size |-> total(s), childrenCount |-> 0])
    /\ pc' = "write"
    /\ UNCHANGED <<fs, args, color, duPaths, data, duErr, out, ttyVars, harnessVars>>

\* s.WriteAll(os.Stdout)
MainWriteAll ==
    /\ pc = "write"
    /\ \E isTerminal \in BOOLEAN :
         LET colorize == color = "always" \/ (color = "auto" /\ isTerminal)
             r == WriteRows(s, 1, colorize, tty, <<>>)
         IN  /\ out' = r.rows
             /\ tty' = r.tty
             /\ builds' = builds + r.built
             /\ pc' = IF r.panic THEN "panic" ELSE "done"
    /\ UNCHANGED <<fs, args, color, duPaths, data, s, duErr,
                   LS_COLORS, dircolorsCmd, calls, ret, harnessVars>>

InitDu ==
    /\ pc = "main"
    /\ fs = SampleFS
    /\ args = <<>> /\ color \in Colors /\ duPaths = <<>> /\ data = <<>>
    /\ s = <<>> /\ duErr = NoErr /\ out = <<>>
    /\ LS_COLORS = <<"d","i","=","1",":","r","s","=","0">>
    /\ dircolorsCmd = CmdFails /\ tty = NilMap
    /\ builds = 0 /\ calls = 0 /\ ret = NoRet
    /\ HarnessIdle

NextDu ==
    \/ MainPaths
    \/ ExecDu
    \/ ExecDuFails
    \/ MainNewDuSlice
    \/ MainSort
    \/ MainAppendTotal
    \/ MainWriteAll

SpecDu == InitDu /\ [][NextDu]_vars

-----------------------------------------------------------------------------
(* Claims about dufmt's report: C1, C2, C3 (under SpecDu) *)

\* The records newDuSlice made of the report, in report order.
Parsed == newDuSlice(data).s
\* The slice of main without the record main appended.
NonTotal == IF pc \in {"write", "done"} THEN SubSeq(s, 1, Len(s) - 1) ELSE s

\* The sum of the sizes as a mathematical integer (the top limb unbounded).
RECURSIVE ExactSum(_)
ExactSum(sl) == IF sl = <<>> THEN Zero64 ELSE AddExact(ExactSum(Tail(sl)), Head(sl).size)

IsPermutation(a, b) ==
    /\ Len(a) = Len(b)
    /\ \E p \in Perms(Len(a)) : \A i \in 1..Len(a) : a[i] = b[p[i]]

Ascending(sl) ==
    \A i, j \in 1..Len(sl) : i < j => ~Less64(sl[j].size, sl[i].size)

\* The stable ascending sort by size, by insertion.
InsertStable(sorted, x) ==
    LET k == Cardinality({i \in 1..Len(sorted) : ~Less64(x.size, sorted[i].size)})
    IN  SubSeq(sorted, 1, k) \o <<x>> \o SubSeq(sorted, k + 1, Len(sorted))
RECURSIVE StableSorted(_)
StableSorted(sl) ==
    IF sl = <<>> THEN <<>>
    ELSE InsertStable(StableSorted(SubSeq(sl, 1, Len(sl) - 1)), sl[Len(sl)])

\* C1 as stated: the slice handed to WriteAll ends with the record "total",
\* whose size is the exact sum of the sizes of all the records before it;
\* those records are the sorted ones, the total having been appended after
\* the sort.
C1_TotalIsExactSum ==
    pc = "write" =>
        /\ Len(s) >= 1
        /\ s[Len(s)].name = Total
        /\ s[Len(s)].size = ExactSum(NonTotal)
        /\ IsPermutation(NonTotal, Parsed)

\* C1 amended: the size of the appended "total" is the sum wrapped to the
\* 64 bits of int, hence the exact sum whenever that sum fits an int; while
\* the sort runs the slice holds the parsed records only.
C1_TotalIsWrappedSum ==
    /\ pc = "write" =>
        /\ Len(s) >= 1
        /\ s[Len(s)].name = Total
        /\ s[Len(s)].size = Wrap64(ExactSum(NonTotal))
        /\ InInt64(ExactSum(NonTotal)) => s[Len(s)].size = ExactSum(NonTotal)
        /\ IsPermutation(NonTotal, Parsed)
    /\ pc \in {"sort", "total"} => Len(s) = Len(Parsed)

\* Several records of different sizes, summed without leaving the int range.
C1_Witness ==
    /\ pc = "write"
    /\ Len(s) = 3
    /\ s[1].size = <<0, 0, 1>> /\ s[2].size = <<0, 0, 2>>
    /\ s[3].size = <<0, 0, 3>>

\* C2 as stated: the non-total records are the stable ascending sort by
\* size of the parsed records (equal sizes keep their report order).
C2_StableSort ==
    pc \in {"total", "write", "done"} => NonTotal = StableSorted(Parsed)

\* C2 amended: the non-total records are the parsed records reordered so
\* that sizes ascend; the order of records of equal size is not fixed.
C2_AscendingSort ==
    pc \in {"total", "write", "done"} =>
        /\ Ascending(NonTotal)
        /\ IsPermutation(NonTotal, Parsed)

\* The sort has moved a larger record behind a smaller one.
C2_Witness ==
    /\ pc = "total"
    /\ Len(s) = 2
    /\ Less64(s[1].size, s[2].size)
    /\ Parsed = <<s[2], s[1]>>

\* What C3 calls a malformed line: no tab, or a size field that is not a
\* non-negative decimal integer (digits, after an optional plus sign).
NonNegativeDecimal(text) ==
    LET body == IF text # <<>> /\ Head(text) = "+" THEN Tail(text) ELSE text
    IN  body # <<>> /\ \A i \in 1..Len(body) : body[i] \in Digits
MalformedLine(line) ==
    \/ IndexOf(line, "\t") = 0
    \/ ~NonNegativeDecimal(SplitN2(line, "\t")[1])
ReportLines == {l \in {Split(data, "\n")[i] : i \in 1..Len(Split(data, "\n"))} : l # <<>>}

\* C3 as stated: a report with a malformed line makes newDuSlice return the
\* malformed-report error quoting such a line, and no records; so every
\* record there is has a size >= 0.
C3_MalformedRejected ==
    pc \notin {"main", "du", "parse"} /\ duErr.kind # "cannot execute du" =>
        /\ (\E l \in ReportLines : MalformedLine(l)) =>
              /\ pc = "exit"
              /\ duErr.kind = "err"
              /\ duErr.line \in ReportLines /\ MalformedLine(duErr.line)
              /\ s = <<>>
        /\ \A i \in 1..Len(NonTotal) : ~Less64(NonTotal[i].size, Zero64)

-----------------------------------------------------------------------------
(* dircolors.ForTTY called from a program, call after call *)

ForTTY ==
    /\ pc = "tty"
    /\ calls < MaxCalls
    /\ \E fpath \in TTYPaths :
         LET f == ForTTYFrom(tty, fpath)
         IN  /\ tty' = f.tty
             /\ builds' = builds + (IF f.built THEN 1 ELSE 0)
             /\ ret' = [path |-> fpath, key |-> f.key, str |-> f.str]
             /\ pc' = IF f.panic THEN "panic" ELSE "tty"
    /\ calls' = calls + 1
    /\ UNCHANGED <<fs, duVars, LS_COLORS, dircolorsCmd, harnessVars>>

InitTTY ==
    /\ pc = "tty"
    /\ fs = SampleFS
    /\ DuIdle
    /\ LS_COLORS \in ColorSpecs
    /\ dircolorsCmd \in DircolorsRuns
    /\ tty = NilMap /\ builds = 0 /\ calls = 0 /\ ret = NoRet
    /\ HarnessIdle

NextTTY == ForTTY

SpecTTY == InitTTY /\ [][NextTTY]_vars

-----------------------------------------------------------------------------
(* dircolors.Key on one path of every kind *)

KeyPaths == {<<"a">>, <<"a", ".", "g", "o">>}

Nodes ==
    [lstat : {"ok"},
     ftype : {"reg", "dir", "symlink", "pipe", "socket", "chardev", "blockdev"},
     setuid : BOOLEAN, setgid : BOOLEAN, perm : SUBSET ExecBits, nlink : {1, 2},
     readlink : {"ok", "error"}, target : {"missing", "file"},
     names : {<<>>}, readdir : {"ok"}]
    \cup {Missing, [RegularFile EXCEPT !.lstat = "error"]}

CallKey ==
    /\ pc = "key"
    /\ keyArg' = [keyArg EXCEPT !.res = Key(keyArg.path)]
    /\ pc' = "done"
    /\ UNCHANGED <<fs, duVars, ttyVars, walkReadsFirst, cnt>>

InitKey ==
    /\ pc = "key"
    /\ \E p \in KeyPaths, node \in Nodes :
         /\ fs = (p :> node)
         /\ keyArg = [path |-> p, res |-> [key |-> <<>>, err |-> Nil]]
    /\ DuIdle /\ TTYIdle
    /\ walkReadsFirst = TRUE /\ cnt = [path |-> <<>>, n |-> 0]

NextKey == CallKey

SpecKey == InitKey /\ [][NextKey]_vars

-----------------------------------------------------------------------------
(* dufmt's paths on every argument list *)

ArgNames == {<<"a">>, <<"b">>}

\* The working directory: a is absent, a file, a directory or a symlink; b
\* is absent or a file.
ANodes ==
    {Missing, RegularFile, Directory(<< <<"x">> >>),
     [RegularFile EXCEPT !.ftype = "symlink", !.target = "missing"],
     [RegularFile EXCEPT !.ftype = "symlink", !.target = "file"],
     [RegularFile EXCEPT !.ftype = "symlink", !.target = "dir", !.names = << <<"x">> >>]}
BNodes == {Missing, RegularFile}
PathsFS(a, b) ==
    (<<".">> :> Directory((IF a.lstat = "ok" THEN << <<"a">> >> ELSE <<>>)
                          \o (IF b.lstat = "ok" THEN << <<"b">> >> ELSE <<>>)))
    @@ (<<"a">> :> a) @@ (<<"b">> :> b) @@ (<<"a", "/", "x">> :> RegularFile)

InitPaths ==
    /\ pc = "main"
    /\ \E a \in ANodes, b \in BNodes : fs = PathsFS(a, b)
    /\ args \in SeqsUpTo(ArgNames, MaxArgs)
    /\ color = "never" /\ duPaths = <<>> /\ data = <<>>
    /\ s = <<>> /\ duErr = NoErr /\ out = <<>>
    /\ TTYIdle /\ HarnessIdle

NextPaths == MainPaths

SpecPaths == InitPaths /\ [][NextPaths]_vars

-----------------------------------------------------------------------------
(* dufmt's count on a tree with failing entries *)

CountRoots == {<<"a">>, <<"a", "/", "b">>, <<"z">>}

\* a holds the directory b (holding x) and the file c; any entry may fail
\* to lstat and any directory may fail to be read.
CountFS(la, lb, lx, lc, ra, rb) ==
    (<<"a">> :> [Directory(<< <<"b">>, <<"c">> >>) EXCEPT !.lstat = la, !.readdir = ra])
    @@ (<<"a", "/", "b">> :> [Directory(<< <<"x">> >>) EXCEPT !.lstat = lb, !.readdir = rb])
    @@ (<<"a", "/", "b", "/", "x">> :> [RegularFile EXCEPT !.lstat = lx])
    @@ (<<"a", "/", "c">> :> [RegularFile EXCEPT !.lstat = lc])

CallCount ==
    /\ pc = "count"
    /\ cnt' = [cnt EXCEPT !.n = count(cnt.path)]
    /\ pc' = "done"
    /\ UNCHANGED <<fs, duVars, ttyVars, walkReadsFirst, keyArg>>

InitCount ==
    /\ pc = "count"
    /\ \E la, lb, lx, lc, ra, rb \in {"ok", "error"} : fs = CountFS(la, lb, lx, lc, ra, rb)
    /\ walkReadsFirst \in BOOLEAN
    /\ \E r \in CountRoots : cnt = [path |-> r, n |-> 0]
    /\ keyArg = [path |-> <<>>, res |-> [key |-> <<>>, err |-> Nil]]
    /\ DuIdle /\ TTYIdle

NextCount == CallCount

SpecCount == InitCount /\ [][NextCount]_vars

-----------------------------------------------------------------------------
(* Claims about dircolors.Key: C4, C5 (under SpecKey) *)

KeyNode == fs[keyArg.path]

\* The rules of the classifier in their order: whether rule i matches the
\* metadata, and the codes it may answer.
RuleMatches(i, node, path) ==
    CASE i = 1 -> node.lstat = "notexist"
      [] i = 2 -> node.ftype = "dir"
      [] i = 3 -> node.ftype = "symlink"
      [] i = 4 -> node.ftype = "pipe"
      [] i = 5 -> node.ftype = "socket"
      [] i = 6 -> node.ftype \in {"chardev", "blockdev"}
      [] i = 7 -> node.setuid
      [] i = 8 -> node.setgid
      [] i = 9 -> node.perm # {}
      [] i = 10 -> node.nlink > 1
      [] i = 11 -> Ext(path) # <<>>
      [] OTHER -> TRUE
RuleCodes(i, node, path) ==
    CASE i = 1 -> {Orphan}
      [] i = 2 -> {Dir}
      [] i = 3 -> {Link, Orphan}
      [] i = 4 -> {NamedPipe}
      [] i = 5 -> {Socket}
      [] i = 6 -> IF node.ftype = "chardev" THEN {CharDevice} ELSE {BlockDevice}
      [] i = 7 -> {Setuid}
      [] i = 8 -> {Setgid}
      [] i = 9 -> {Executable}
      [] i = 10 -> {MultiHardlink}
      [] i = 11 -> {<<"*">> \o Ext(path)}
      [] OTHER -> {Reset}
FirstRule(node, path) ==
    CHOOSE i \in 1..12 : RuleMatches(i, node, path)
                         /\ \A j \in 1..(i - 1) : ~RuleMatches(j, node, path)

\* C4: whenever lstat answers (metadata, or "does not exist"), Key returns
\* no error and one code, that of the first rule of the fixed order that
\* matches the metadata.
C4_FirstMatchingRule ==
    pc = "done" /\ KeyNode.lstat \in {"ok", "notexist"} =>
        /\ keyArg.res.err = Nil
        /\ keyArg.res.key \in RuleCodes(FirstRule(KeyNode, keyArg.path), KeyNode, keyArg.path)

\* A setuid executable file with two hard links and an extension is setuid.
C4_Witness ==
    /\ pc = "done"
    /\ KeyNode.lstat = "ok" /\ KeyNode.ftype = "reg"
    /\ KeyNode.setuid /\ KeyNode.perm = ExecBits /\ KeyNode.nlink = 2
    /\ Ext(keyArg.path) # <<>>
    /\ keyArg.res.key = Setuid

\* A symlink's target can be resolved when the link can be read and what it
\* points to exists.
TargetResolves(node) == node.readlink = "ok" /\ node.target # "missing"

\* C5 as stated: for a symlink Key returns orphan whenever the target cannot
\* be resolved, a dangling link included, and symlink only when it can.
C5_DanglingIsOrphan ==
    pc = "done" /\ KeyNode.lstat = "ok" /\ KeyNode.ftype = "symlink" =>
        /\ ~TargetResolves(KeyNode) => keyArg.res.key = Orphan
        /\ keyArg.res.key = Link => TargetResolves(KeyNode)

-----------------------------------------------------------------------------
(* Claims about dircolors.ForTTY and the colour database: C6, C8, C10
   (under SpecTTY) *)

Returned == pc = "tty" /\ calls >= 1

\* C6: ForTTY returns the path as it is when Key fails or the database has
\* no attribute, or an empty one, for the path's code, and ESC[ attribute m
\* path ESC[0m otherwise; with an empty database every path comes back as
\* it is.
C6_WrapOrUnchanged ==
    Returned =>
        LET k == Key(ret.path)
            has == k.err = Nil /\ k.key \in DOMAIN tty.m /\ tty.m[k.key] # <<>>
        IN  /\ has => ret.str = <<Esc, "[">> \o tty.m[k.key] \o <<"m">>
                                \o ret.path \o <<Esc, "[", "0", "m">>
            /\ ~has => ret.str = ret.path
            /\ DOMAIN tty.m = {} => ret.str = ret.path

\* A directory coloured by di=1.
C6_Witness ==
    /\ Returned
    /\ ret.path = <<"a">>
    /\ ret.str = <<Esc, "[", "1", "m", "a", Esc, "[", "0", "m">>

CountEq(pair) == Cardinality({i \in 1..Len(pair) : pair[i] = "="})
Before(pair) == SubSeq(pair, 1, IndexOf(pair, "=") - 1)
After(pair) == SubSeq(pair, IndexOf(pair, "=") + 1, Len(pair))
SpecPairs == Split(ColorSpec.str, ":")

ExactlyOneEq(pair) == CountEq(pair) = 1
AtLeastOneEq(pair) == CountEq(pair) >= 1

\* The database that holds code -> attribute for the pairs accepted (those
\* with exactly one "=" when strict, with at least one otherwise), a later
\* pair replacing an earlier one of the same code.
DatabaseOf(pairs, strict) ==
    LET idx == {i \in 1..Len(pairs) :
                  IF strict THEN ExactlyOneEq(pairs[i]) ELSE AtLeastOneEq(pairs[i])}
        last(k) == CHOOSE i \in idx : Before(pairs[i]) = k
                       /\ \A j \in idx : Before(pairs[j]) = k => j <= i
    IN  [k \in {Before(pairs[i]) : i \in idx} |-> After(pairs[last(k)])]

\* C8 as stated: the database holds the pairs with exactly one "="; a pair
\* with none, or with two or more, adds no entry.
C8_ExactlyOneEquals ==
    ~tty.nil => tty.m = DatabaseOf(SpecPairs, TRUE)

\* C8 amended: a pair is entered when it holds at least one "=", cut at the
\* first one (the code before it, the attribute all that follows it, further
\* "=" included); only a pair without "=" is skipped.
C8_AtLeastOneEquals ==
    ~tty.nil => tty.m = DatabaseOf(SpecPairs, FALSE)

\* The pair di=1=2 entered as di -> 1=2.
C8_Witness ==
    /\ ~tty.nil
    /\ Dir \in DOMAIN tty.m
    /\ tty.m[Dir] = <<"1", "=", "2">>

\* C10: over the ForTTY calls of a process the database is built once, by
\* the first call, also when it comes out empty; no later call rebuilds or
\* changes it.
C10_BuiltOnce ==
    /\ [](builds <= 1)
    /\ [](calls >= 1 => builds = 1)
    /\ [](Returned => ~tty.nil)
    /\ [][~tty.nil => tty' = tty]_vars

\* A second call after a first one that built an empty database.
C10_Witness ==
    /\ Returned /\ calls = 2
    /\ LS_COLORS = <<>> /\ dircolorsCmd.err
    /\ DOMAIN tty.m = {} /\ ~tty.nil
    /\ builds = 1

-----------------------------------------------------------------------------
(* Claim about dufmt's paths: C7 (under SpecPaths) *)

NamesDirectory(path) == ~Stat(path).err /\ Stat(path).isDir

\* C7 as stated: no argument globs the working directory, one argument
\* naming a directory globs that directory, and every other argument list
\* comes back as it is, without an error.
C7_LiteralOtherwise ==
    pc # "main" =>
        IF Len(args) = 0 THEN pc = "du" /\ duPaths = GlobStar
        ELSE IF Len(args) = 1 /\ NamesDirectory(args[1])
             THEN pc = "du" /\ duPaths = GlobIn(args[1])
        ELSE pc = "du" /\ duPaths = args

\* C7 amended: as stated, but a single argument that cannot be stat'ed (it
\* does not exist, or is a dangling symlink) is an error that ends main
\* with no paths; a single argument that exists and is no directory, and two
\* or more arguments, come back as they are.
C7_LiteralOrBadArgs ==
    pc # "main" =>
        IF Len(args) = 0 THEN pc = "du" /\ duPaths = GlobStar
        ELSE IF Len(args) = 1 /\ NamesDirectory(args[1])
             THEN pc = "du" /\ duPaths = GlobIn(args[1])
        ELSE IF Len(args) = 1 /\ Stat(args[1]).err
             THEN pc = "exit" /\ duErr.kind = "bad args" /\ duPaths = <<>>
        ELSE pc = "du" /\ duPaths = args

\* Two arguments, the first a directory, handed on as they are.
C7_Witness ==
    /\ pc = "du"
    /\ Len(args) = 2 /\ NamesDirectory(args[1])
    /\ duPaths = args

-----------------------------------------------------------------------------
(* Claim about dufmt's count: C9 (under SpecCount) *)

CanRead(path) == Lstat(path).ftype = "dir" /\ Lstat(path).readdir = "ok"

\* The entries of the subtree that can be visited: the ones that lstat,
\* below directories that can be read.  A directory that cannot be read
\* counts for `unreadable` (0 or 1).
RECURSIVE Visitable(_, _), VisitableNames(_, _, _)
Visitable(path, unreadable) ==
    IF Lstat(path).lstat # "ok" THEN 0
    ELSE IF Lstat(path).ftype # "dir" THEN 1
    ELSE IF ~CanRead(path) THEN unreadable
    ELSE 1 + VisitableNames(path, Lstat(path).names, unreadable)
VisitableNames(path, names, unreadable) ==
    IF names = <<>> THEN 0
    ELSE Visitable(Join(path, Head(names)), unreadable)
         + VisitableNames(path, Tail(names), unreadable)

\* C9 as stated: count is the number of entries that can be visited, the
\* walk going on past an entry that fails; it is 0 only when the walk cannot
\* start at the root.
C9_CountsAllVisitable ==
    pc = "done" =>
        /\ cnt.n >= Visitable(cnt.path, 0)
        /\ cnt.n <= Visitable(cnt.path, 1)
        /\ cnt.n = 0 => Lstat(cnt.path).lstat # "ok" \/ ~CanRead(cnt.path)

\* The walk order: an entry, then, when it is a directory that can be read,
\* its entries in lexical order, each with what is below it.
RECURSIVE PreOrder(_), PreOrderNames(_, _)
PreOrder(path) ==
    IF Lstat(path).lstat = "ok" /\ CanRead(path)
    THEN <<path>> \o PreOrderNames(path, Lstat(path).names)
    ELSE <<path>>
PreOrderNames(path, names) ==
    IF names = <<>> THEN <<>>
    ELSE PreOrder(Join(path, Head(names))) \o PreOrderNames(path, Tail(names))

Fails(path) ==
    \/ Lstat(path).lstat # "ok"
    \/ Lstat(path).ftype = "dir" /\ Lstat(path).readdir # "ok"

\* C9 amended: the walk ends at the first entry, in walk order, that fails
\* (it cannot be lstat'ed, or it is a directory that cannot be read): count
\* is the number of entries before that one, plus one when that one is a
\* directory that lstat'ed and the Go release reports a directory before
\* reading it.  Without a failing entry it is the number of entries of the
\* subtree; it is 0 when the root cannot be lstat'ed.
C9_CountsUpToFirstFailure ==
    pc = "done" =>
        LET order == PreOrder(cnt.path)
            bad == {i \in 1..Len(order) : Fails(order[i])}
            first == CHOOSE i \in bad : \A j \in bad : i <= j
        IN  /\ bad = {} => cnt.n = Len(order)
            /\ bad # {} =>
                  cnt.n = (first - 1)
                          + (IF Lstat(order[first]).lstat = "ok" /\ ~walkReadsFirst
                             THEN 1 ELSE 0)
            /\ Lstat(cnt.path).lstat # "ok" => cnt.n = 0

\* The walk ended at a/b, which could not be lstat'ed, and a/c, which can be
\* visited, is not counted.
C9_Witness ==
    /\ pc = "done"
    /\ cnt.path = <<"a">>
    /\ Lstat(<<"a">>).lstat = "ok" /\ CanRead(<<"a">>)
    /\ Lstat(<<"a", "/", "b">>).lstat # "ok"
    /\ Lstat(<<"a", "/", "c">>).lstat = "ok"
    /\ cnt.n = 1

=============================================================================
